---------------------------- MODULE Spec2Model ----------------------------
(***************************************************************************)
(* A model of ruddit (mascanho/ruddit): the record store of                *)
(* src/database/adding.rs and the two extraction calls of src/ai/gemini.rs *)
(* (ask_gemini and gemini_generate_leads) with the spinner thread each     *)
(* attempt spawns, the response normalisation and the JSON validation.     *)
(*                                                                         *)
(* Texts are sequences of characters, each a string ("NL" stands for a     *)
(* line feed, "BT" for a backtick).  Over the alphabet Char the only JSON  *)
(* values that can be written are numbers made of the digit 1 and arrays   *)
(* of values, so FromStr below is serde_json::from_str::<Value> restricted *)
(* to that alphabet.                                                       *)
(*                                                                         *)
(* Writes to stdout (println!, the spinner's print!/flush) are assumed to  *)
(* succeed.                                                                *)
(***************************************************************************)
EXTENDS Naturals, Integers, Sequences, FiniteSets, TLC

(***************************************************************************)
(* Text primitives (Rust str methods used by the normalisation).           *)
(***************************************************************************)

\* char::is_whitespace on the alphabet: the space and the line feed.
IsWs(c) == c \in {" ", "NL"}

Tail0(s) == SubSeq(s, 2, Len(s))

Front0(s) == SubSeq(s, 1, Len(s) - 1)

\* str::starts_with(pat)
StartsWith(s, p) == Len(p) <= Len(s) /\ SubSeq(s, 1, Len(p)) = p

\* str::ends_with(pat)
EndsWith(s, p) == Len(p) <= Len(s) /\ SubSeq(s, Len(s) - Len(p) + 1, Len(s)) = p

RECURSIVE TrimStart(_)
\* str::trim_start
TrimStart(s) == IF s # <<>> /\ IsWs(s[1]) THEN TrimStart(Tail0(s)) ELSE s

RECURSIVE TrimEnd(_)
\* str::trim_end
TrimEnd(s) == IF s # <<>> /\ IsWs(s[Len(s)]) THEN TrimEnd(Front0(s)) ELSE s

\* str::trim
Trim(s) == TrimEnd(TrimStart(s))

RECURSIVE TrimStartMatches(_, _)
\* str::trim_start_matches(pat): every repeated leading occurrence of pat is removed.
TrimStartMatches(s, p) ==
    IF p # <<>> /\ StartsWith(s, p)
    THEN TrimStartMatches(SubSeq(s, Len(p) + 1, Len(s)), p)
    ELSE s

RECURSIVE TrimEndMatches(_, _)
\* str::trim_end_matches(pat): every repeated trailing occurrence of pat is removed.
TrimEndMatches(s, p) ==
    IF p # <<>> /\ EndsWith(s, p)
    THEN TrimEndMatches(SubSeq(s, 1, Len(s) - Len(p)), p)
    ELSE s

\* The fence marker: three backticks.
Fence == <<"BT", "BT", "BT">>

\* The tagged fence opener: three backticks and json.
FenceJson == <<"BT", "BT", "BT", "j", "s", "o", "n">>

(***************************************************************************)
(* serde_json::from_str::<Value> on the alphabet.                          *)
(***************************************************************************)

JNum(n) == [t |-> "num", n |-> n, items |-> <<>>]

JArr(items) == [t |-> "arr", n |-> 0, items |-> items]

NoValue == [t |-> "none", n |-> 0, items |-> <<>>]

POk(v, next) == [ok |-> TRUE, val |-> v, next |-> next, msg |-> "", at |-> 0]

PFail(msg, at) == [ok |-> FALSE, val |-> NoValue, next |-> 0, msg |-> msg, at |-> at]

RECURSIVE SkipWs(_, _)
\* The first position >= i that holds no JSON whitespace (Len(s) + 1 when none).
SkipWs(s, i) == IF i <= Len(s) /\ IsWs(s[i]) THEN SkipWs(s, i + 1) ELSE i

RECURSIVE DigitsEnd(_, _)
\* The first position >= i that holds no digit.
DigitsEnd(s, i) == IF i <= Len(s) /\ s[i] = "1" THEN DigitsEnd(s, i + 1) ELSE i

RECURSIVE ParseValue(_, _), ParseElems(_, _, _)
\* Deserializer::parse_value from position i.
ParseValue(s, i) ==
    LET k == SkipWs(s, i) IN
    IF k > Len(s) THEN PFail("EOF while parsing a value", k)
    ELSE IF s[k] = "1" THEN POk(JNum(DigitsEnd(s, k) - k), DigitsEnd(s, k))
    ELSE IF s[k] = "[" THEN
        LET k2 == SkipWs(s, k + 1) IN
        IF k2 > Len(s) THEN PFail("EOF while parsing a list", k2)
        ELSE IF s[k2] = "]" THEN POk(JArr(<<>>), k2 + 1)
        ELSE ParseElems(s, k2, <<>>)
    ELSE IF s[k] = "n" THEN PFail("expected ident", k)
    ELSE PFail("expected value", k)

\* The elements of an array after its "[", the first one starting at i.
ParseElems(s, i, acc) ==
    LET r == ParseValue(s, i) IN
    IF ~r.ok THEN r
    ELSE LET k == SkipWs(s, r.next) IN
         IF k > Len(s) THEN PFail("EOF while parsing a list", k)
         ELSE IF s[k] = "]" THEN POk(JArr(Append(acc, r.val)), k + 1)
         ELSE IF s[k] = "," THEN
             LET k2 == SkipWs(s, k + 1) IN
             IF k2 <= Len(s) /\ s[k2] = "]" THEN PFail("trailing comma", k2)
             ELSE ParseElems(s, k2, Append(acc, r.val))
         ELSE PFail("expected , or ]", k)

\* serde_json::from_str: one value, then only whitespace.
FromStr(s) ==
    LET r == ParseValue(s, 1) IN
    IF ~r.ok THEN r
    ELSE IF SkipWs(s, r.next) <= Len(s) THEN PFail("trailing characters", SkipWs(s, r.next))
    ELSE r

(***************************************************************************)
(* The response normalisation (one copy in each extraction call).          *)
(***************************************************************************)

\* Normalize that knows the json fence only: a plain fence is left in place.
NormalizeJsonFenceOnly(text) ==
    LET trimmed == Trim(text) IN
    IF StartsWith(trimmed, FenceJson)
    THEN Trim(TrimEndMatches(TrimStartMatches(trimmed, FenceJson), Fence))
    ELSE trimmed

\* ask_gemini: trimmed_response and json_str.
Normalize(text) ==
    LET trimmed == Trim(text) IN
    IF StartsWith(trimmed, FenceJson)
    THEN Trim(TrimEndMatches(TrimStartMatches(trimmed, FenceJson), Fence))
    ELSE IF StartsWith(trimmed, Fence)
    THEN Trim(TrimEndMatches(TrimStartMatches(trimmed, Fence), Fence))
    ELSE trimmed

\* gemini_generate_leads: trimmed_response and json_str.
NormalizeLeads(text) ==
    LET trimmed == Trim(text) IN
    IF StartsWith(trimmed, FenceJson)
    THEN Trim(TrimEndMatches(TrimStartMatches(trimmed, FenceJson), Fence))
    ELSE IF StartsWith(trimmed, Fence)
    THEN Trim(TrimEndMatches(TrimStartMatches(trimmed, Fence), Fence))
    ELSE trimmed

(***************************************************************************)
(* The record store: the two SQLite tables, in rowid order.                *)
(*                                                                         *)
(* A post row keeps id (the rowid SQLite assigns), timestamp, title, url   *)
(* and relevance; formatted_date, subreddit and permalink are stored       *)
(* verbatim like title and are left out.  A comment row keeps id, post_id  *)
(* and body; body stands for body, author, formatted_date, score,         *)
(* permalink and parent_id, all stored verbatim, and every comment has the *)
(* same timestamp.                                                         *)
(***************************************************************************)

\* The largest number of records in one batch.
MaxBatch == 2

\* The posts the upstream API lists: the id parsed from the post's id string
\* (post.id.parse().unwrap_or(0)), its link, creation time and title, and the sort
\* orders of the listings that return it (the relevance stored with it).
RedditPosts ==
    {[id |-> 0, url |-> "u1", timestamp |-> 10, title |-> "a", listed |-> {"hot", "new"}],
     [id |-> 1, url |-> "u2", timestamp |-> 20, title |-> "b", listed |-> {"hot"}]}

\* PostDataWrapper values handed to append_results.
PostInputs ==
    UNION {{[id |-> p.id, timestamp |-> p.timestamp, title |-> p.title, url |-> p.url,
             relevance |-> r] : r \in p.listed} : p \in RedditPosts}

\* The comments the upstream API lists, each under the post it belongs to, with the
\* bodies it has had.
RedditComments ==
    {[id |-> "c1", post_id |-> "0", bodies |-> {"x", "y"}],
     [id |-> "c2", post_id |-> "1", bodies |-> {"x"}]}

\* CommentDataWrapper values handed to append_comments.
CommentInputs ==
    UNION {{[id |-> c.id, post_id |-> c.post_id, body |-> b] : b \in c.bodies} :
              c \in RedditComments}

RECURSIVE SeqsUpTo(_, _)
\* The sequences over S of length at most n.
SeqsUpTo(S, n) ==
    IF n = 0 THEN {<<>>}
    ELSE LET shorter == SeqsUpTo(S, n - 1) IN
         shorter \cup {Append(q, x) : q \in shorter, x \in S}

PostBatches == SeqsUpTo(PostInputs, MaxBatch)

CommentBatches == SeqsUpTo(CommentInputs, MaxBatch)

RECURSIVE MaxId(_)
MaxId(tbl) ==
    IF tbl = <<>> THEN 0
    ELSE LET m == MaxId(Tail0(tbl)) IN IF tbl[1].id > m THEN tbl[1].id ELSE m

\* The rowid SQLite gives a row inserted without one: the largest in the table plus one.
NextRowid(tbl) == MaxId(tbl) + 1

\* PostConflict for a table declared without UNIQUE on url.
PostConflictNone(tbl, r) == FALSE

\* reddit_posts: url UNIQUE (the inserted columns never collide on the rowid).
PostConflict(tbl, r) == \E k \in 1..Len(tbl) : tbl[k].url = r.url

\* INSERT OR IGNORE INTO reddit_posts (timestamp, ..., url, ...): result.id is not inserted.
InsertPost(tbl, r) ==
    IF PostConflict(tbl, r)
    THEN [tbl |-> tbl, rc |-> "ok"]
    ELSE [tbl |-> Append(tbl, [id |-> NextRowid(tbl), timestamp |-> r.timestamp,
                                title |-> r.title, url |-> r.url,
                                relevance |-> r.relevance]),
          rc |-> "ok"]

\* reddit_comments: id TEXT PRIMARY KEY.
CommentConflict(tbl, c) == \E k \in 1..Len(tbl) : tbl[k].id = c.id

\* InsertComment with INSERT OR IGNORE: the stored row is kept.
InsertCommentIgnore(tbl, c) ==
    IF \E k \in 1..Len(tbl) : tbl[k].id = c.id
    THEN [tbl |-> tbl, rc |-> "ok"]
    ELSE [tbl |-> Append(tbl, c), rc |-> "ok"]

\* INSERT OR REPLACE INTO reddit_comments: the conflicting row is deleted, the new one inserted.
InsertComment(tbl, c) ==
    IF CommentConflict(tbl, c)
    THEN [tbl |-> Append(SelectSeq(tbl, LAMBDA row : row.id # c.id), c), rc |-> "ok"]
    ELSE [tbl |-> Append(tbl, c), rc |-> "ok"]

RECURSIVE ExecPosts(_, _, _, _)
\* The for loop of append_results from record k on; statement failAt fails with an
\* I/O error (0: none does) and the ? returns it.
ExecPosts(tbl, batch, k, failAt) ==
    IF k > Len(batch) THEN [tbl |-> tbl, rc |-> "ok"]
    ELSE IF k = failAt THEN [tbl |-> tbl, rc |-> "io"]
    ELSE LET r == InsertPost(tbl, batch[k]) IN
         IF r.rc # "ok" THEN r ELSE ExecPosts(r.tbl, batch, k + 1, failAt)

RECURSIVE ExecComments(_, _, _, _)
\* The for loop of append_comments from record k on.
ExecComments(tbl, batch, k, failAt) ==
    IF k > Len(batch) THEN [tbl |-> tbl, rc |-> "ok"]
    ELSE IF k = failAt THEN [tbl |-> tbl, rc |-> "io"]
    ELSE LET r == InsertComment(tbl, batch[k]) IN
         IF r.rc # "ok" THEN r ELSE ExecComments(r.tbl, batch, k + 1, failAt)

\* AppendResultsOn with every statement committed as it is executed (no transaction).
AppendResultsOnNoRollback(tbl, batch, failAt) ==
    LET r == ExecPosts(tbl, batch, 1, failAt) IN
    IF r.rc = "ok" /\ failAt # Len(batch) + 1
    THEN r
    ELSE [tbl |-> r.tbl, rc |-> IF r.rc = "ok" THEN "io" ELSE r.rc]

\* append_results as a function of the table: the transaction commits when every
\* statement and the commit (failAt = Len(batch) + 1 fails it) succeed, and is rolled
\* back when the Transaction is dropped on an error.
AppendResultsOn(tbl, batch, failAt) ==
    LET r == ExecPosts(tbl, batch, 1, failAt) IN
    IF r.rc = "ok" /\ failAt # Len(batch) + 1
    THEN r
    ELSE [tbl |-> tbl, rc |-> IF r.rc = "ok" THEN "io" ELSE r.rc]

\* append_comments as a function of the table.
AppendCommentsOn(tbl, batch, failAt) ==
    LET r == ExecComments(tbl, batch, 1, failAt) IN
    IF r.rc = "ok" /\ failAt # Len(batch) + 1
    THEN r
    ELSE [tbl |-> tbl, rc |-> IF r.rc = "ok" THEN "io" ELSE r.rc]

RECURSIVE InsertByTime(_, _)
\* row placed after the rows whose timestamp is not smaller.
InsertByTime(sorted, row) ==
    IF sorted = <<>> THEN <<row>>
    ELSE IF sorted[1].timestamp >= row.timestamp
         THEN <<sorted[1]>> \o InsertByTime(Tail0(sorted), row)
         ELSE <<row>> \o sorted

RECURSIVE SortByTimeDesc(_)
SortByTimeDesc(tbl) ==
    IF tbl = <<>> THEN <<>>
    ELSE InsertByTime(SortByTimeDesc(Front0(tbl)), tbl[Len(tbl)])

\* get_db_results: SELECT ... FROM reddit_posts ORDER BY timestamp DESC.
GetDbResults(tbl) == SortByTimeDesc(tbl)

\* get_post_comments: SELECT ... FROM reddit_comments WHERE post_id = ?1 ORDER BY
\* timestamp DESC.  The comments modelled share one timestamp, so the rows come in
\* table order.
GetPostComments(tbl, post_id) == SelectSeq(tbl, LAMBDA row : row.post_id = post_id)

(***************************************************************************)
(* State.                                                                  *)
(***************************************************************************)

VARIABLES
    posts,          \* table reddit_posts
    comments,       \* table reddit_comments
    lastOp,         \* the last store operation: its batch, what it returned and printed
    fn,             \* the extraction call in progress: "none", "ask" or "leads"
    question,       \* ask_gemini's argument
    config,         \* the settings file: LEAD_KEYWORDS and MATCH
    pc,             \* where the extraction call stands
    reddits,        \* the snapshot get_db_results returned
    all_comments,   \* gemini_generate_leads: the comments collected for the snapshot
    attempts,       \* the loop counter
    last_error,     \* the loop's last_error slot
    result,         \* what the extraction call returned
    requests,       \* the provider requests issued so far
    resp,           \* what the provider answered to each
    outstanding,    \* provider calls issued and not yet answered
    spinners,       \* the spinner thread of each attempt, with its running flag
    exports,        \* the calls of export_gemini_to_excel: json_str and how each ended
    fault,          \* the failed store or settings access that ended the call, if any
    failed_reads,   \* gemini_generate_leads: the posts whose get_post_comments failed
    main            \* main: its arguments, position, exit status and the calls it made

storeVars == <<posts, comments, lastOp>>

callVars == <<fn, question, config, pc, reddits, all_comments, attempts, last_error,
              result, requests, resp, outstanding, spinners, exports, fault, failed_reads, main>>

vars == <<posts, comments, lastOp, fn, question, config, pc, reddits, all_comments,
          attempts, last_error, result, requests, resp, outstanding, spinners,
          exports, fault, failed_reads, main>>

NoOp == [op |-> "none", pbatch |-> <<>>, cbatch |-> <<>>, rc |-> "ok", reported |-> 0]

(***************************************************************************)
(* Store operations.                                                       *)
(***************************************************************************)

\* append_results: the N of println!("Added {} results", results.len()), printed after
\* the commit; main prints posts.len() of the same batch as the number of new posts.
AddedResults(results, rc) == IF rc = "ok" THEN Len(results) ELSE 0

\* append_comments: the N of println!("Added {} comments", comments.len()).
AddedComments(cs, rc) == IF rc = "ok" THEN Len(cs) ELSE 0

\* DB::append_results(results); the environment may fail one statement or the commit.
AppendResults ==
    \E batch \in PostBatches : \E failAt \in 0..(Len(batch) + 1) :
        LET r == AppendResultsOn(posts, batch, failAt) IN
        /\ posts' = r.tbl
        /\ lastOp' = [op |-> "append_results", pbatch |-> batch, cbatch |-> <<>>,
                      rc |-> r.rc, reported |-> AddedResults(batch, r.rc)]
        /\ UNCHANGED <<comments, callVars>>

\* DB::append_comments(comments).
AppendComments ==
    \E batch \in CommentBatches : \E failAt \in 0..(Len(batch) + 1) :
        LET r == AppendCommentsOn(comments, batch, failAt) IN
        /\ comments' = r.tbl
        /\ lastOp' = [op |-> "append_comments", pbatch |-> <<>>, cbatch |-> batch,
                      rc |-> r.rc, reported |-> AddedComments(batch, r.rc)]
        /\ UNCHANGED <<posts, callVars>>

\* DB::clear_database: two DELETE statements outside any transaction; failAt = 1 or 2
\* fails the first or the second one.
ClearDatabase ==
    \E failAt \in 0..2 :
        /\ posts' = IF failAt = 1 THEN posts ELSE <<>>
        /\ comments' = IF failAt = 0 THEN <<>> ELSE comments
        /\ lastOp' = [op |-> "clear_database", pbatch |-> <<>>, cbatch |-> <<>>,
                      rc |-> IF failAt = 0 THEN "ok" ELSE "io", reported |-> 0]
        /\ UNCHANGED callVars

(***************************************************************************)
(* The extraction calls: values.                                           *)
(***************************************************************************)

\* let max_attempts = 2;
max_attempts == 2

\* spinner_chars.len()
SpinnerChars == 10

Questions == {"q1", "q2"}

\* Settings files: LEAD_KEYWORDS and MATCH.
Configs ==
    {[LEAD_KEYWORDS |-> <<>>, MATCH |-> "OR"],
     [LEAD_KEYWORDS |-> <<"k1">>, MATCH |-> "AND"],
     [LEAD_KEYWORDS |-> <<"k1", "k2">>, MATCH |-> "or"]}

\* str::to_lowercase on the MATCH values of Configs.
ToLowercase(m) == CASE m = "AND" -> "and" [] m = "OR" -> "or" [] OTHER -> m

RECURSIVE JoinOr(_)
\* Vec<String>::join(" OR ")
JoinOr(ks) ==
    IF ks = <<>> THEN ""
    ELSE IF Len(ks) = 1 THEN ks[1]
    ELSE ks[1] \o " OR " \o JoinOr(Tail0(ks))

Digits == <<"0", "1", "2", "3", "4", "5", "6", "7", "8", "9">>

RECURSIVE I64ToString(_)
\* i64::to_string of a number that is not negative.
I64ToString(n) ==
    IF n < 10 THEN Digits[n + 1] ELSE I64ToString(n \div 10) \o Digits[(n % 10) + 1]

\* Responses of the provider (response.text()).
JsonNumber == <<"1">>
JsonArray == <<"[", "1", ",", "1", "1", "]">>
JsonArrayPadded == <<" ", "[", "1", "]", "NL">>
JsonEmptyArray == <<"[", "]">>
FencedJson == FenceJson \o <<"NL", "[", "1", "]", "NL">> \o Fence
FencedPlain == Fence \o <<"NL", "[", "1", "1", "]", "NL">> \o Fence
FencedPadded == <<"NL">> \o FenceJson \o <<"[", "]">> \o Fence \o <<" ">>
FencedOtherTag == Fence \o <<"j", "s", "NL", "[", "1", "]", "NL">> \o Fence
FencedProse == FenceJson \o <<"NL", "s", "o", "NL">> \o Fence
EmptyText == <<>>
Prose == <<"s", "o", " ", "[", "1", "]">>
Truncated == <<"[", "1", ",">>
TrailingFence == <<"[", "1", "]">> \o Fence
NullLike == <<"n", "o">>

Texts ==
    {JsonNumber, JsonArray, JsonArrayPadded, JsonEmptyArray, FencedJson, FencedPlain,
     FencedPadded, FencedOtherTag, FencedProse, EmptyText, Prose, Truncated,
     TrailingFence, NullLike}

\* Messages of the transport errors of the provider client.
TransportErrors == {"timeout", "http 500"}

\* What client.generate_content()....execute().await yields.
Outcomes ==
    {[ok |-> TRUE, text |-> t, e |-> ""] : t \in Texts}
        \cup {[ok |-> FALSE, text |-> <<>>, e |-> m] : m \in TransportErrors}

\* GeminiError and Option<GeminiError>.
NoError == [kind |-> "None", msg |-> <<"", "">>, at |-> 0, raw |-> <<>>]

DatabaseError(what, e) ==
    [kind |-> "DatabaseError", msg |-> <<what, e>>, at |-> 0, raw |-> <<>>]

ConfigError(e) == [kind |-> "ConfigError", msg |-> <<"", e>>, at |-> 0, raw |-> <<>>]

GeminiApiError(what, e) ==
    [kind |-> "GeminiApiError", msg |-> <<what, e>>, at |-> 0, raw |-> <<>>]

\* "Failed to parse JSON from API response: {e}. Response was: {text_response}"
JsonParsingError(perr, text_response) ==
    [kind |-> "JsonParsingError",
     msg |-> <<"Failed to parse JSON from API response", perr.msg>>,
     at |-> perr.at, raw |-> text_response]

\* A panic of the calling task (expect / unwrap on an Err).
Panic(what) == [kind |-> "panic", msg |-> <<what, "">>, at |-> 0, raw |-> <<>>]

NoResult == [status |-> "none", value |-> NoValue, err |-> NoError]

Ok(v) == [status |-> "ok", value |-> v, err |-> NoError]

Err(e) == [status |-> "err", value |-> NoValue, err |-> e]

Panicked(e) == [status |-> "panic", value |-> NoValue, err |-> e]

\* The thread thread::spawn starts, with the AtomicBool it shares with the loop.
NewSpinner == [st |-> "spin", running |-> TRUE, i |-> 0]

Live(ts) == {k \in 1..Len(ts) : ts[k].st = "spin"}

RECURSIVE CollectComments(_, _, _, _)
\* The for loop over posts: get_post_comments(post.id.to_string()), a failed read
\* (k \in failing) being skipped by the if let Ok.
CollectComments(tbl, snapshot, k, failing) ==
    IF k > Len(snapshot) THEN <<>>
    ELSE (IF k \in failing THEN <<>>
          ELSE GetPostComments(tbl, I64ToString(snapshot[k].id)))
         \o CollectComments(tbl, snapshot, k + 1, failing)

\* What the system prompt of ask_gemini asks of the answer (the same on every attempt).
AskConstraints == {"answer the questions", "be thorough", "provide URLs"}

\* gemini_generate_leads, first attempt: STRICT OUTPUT REQUIREMENTS.
LeadsFirstConstraints ==
    {"only a JSON array of objects", "field formatted_date", "field title", "field url",
     "field relevance", "field subreddit", "field sentiment", "field top_comments",
     "field comment_sentiment", "field engagement_score", "no text outside the JSON",
     "no markdown blocks"}

\* gemini_generate_leads, later attempts: REQUIREMENTS and rules.
LeadsRetryConstraints ==
    {"only a JSON array of objects", "field formatted_date", "field title", "field url",
     "field relevance", "field subreddit", "field sentiment", "field engagement_score",
     "double quotes", "no text outside the JSON", "no markdown blocks",
     "only posts matching the query"}

\* AskPrompt over a get_db_results made anew for the attempt.
AskPromptRefetch(attempt, json_reddits) ==
    [text |-> "Given the following data", payload |-> "posts",
     posts |-> GetDbResults(posts), comments |-> <<>>,
     constraints |-> {"answer the questions", "be thorough", "provide URLs"}]

\* ask_gemini: system_prompt (both branches of the if are the same text).
AskPrompt(attempt, json_reddits) ==
    IF attempt > 1
    THEN [text |-> "Given the following data", payload |-> "posts",
          posts |-> json_reddits, comments |-> <<>>, constraints |-> AskConstraints]
    ELSE [text |-> "Given the following data", payload |-> "posts",
          posts |-> json_reddits, comments |-> <<>>, constraints |-> AskConstraints]

\* gemini_generate_leads: system_prompt.
LeadsPrompt(attempt, json_reddits, cs) ==
    IF attempt > 1
    THEN [text |-> "You are a lead generation AI. Analyze the following data strictly",
          payload |-> "posts", posts |-> json_reddits, comments |-> <<>>,
          constraints |-> LeadsRetryConstraints]
    ELSE [text |-> "You are a lead generation AI analyzing posts and comments",
          payload |-> "posts and comments", posts |-> json_reddits, comments |-> cs,
          constraints |-> LeadsFirstConstraints]

\* ask_gemini: with_user_message(question).
AskMessage(q) == [text |-> q, keywords |-> "", operator |-> ""]

\* gemini_generate_leads: question, from keywords and match_operator.
LeadsMessage(cfg) ==
    [text |-> "Analyze the following posts",
     keywords |-> JoinOr(cfg.LEAD_KEYWORDS),
     operator |-> IF ToLowercase(cfg.MATCH) = "and" THEN "AND" ELSE "OR"]

(***************************************************************************)
(* The extraction calls: steps.                                            *)
(***************************************************************************)

\* AskSetup with a failed get_db_results taken for an empty result.
AskSetupIgnoresRead(f, ptbl) ==
    IF f = "db_open"
    THEN [pc |-> "done", reddits |-> <<>>,
          result |-> Err(DatabaseError("Failed to connect to DB", "io"))]
    ELSE IF f = "db_read"
    THEN [pc |-> "loop", reddits |-> <<>>, result |-> NoResult]
    ELSE IF f = "config_read"
    THEN [pc |-> "done", reddits |-> GetDbResults(ptbl), result |-> Err(ConfigError("io"))]
    ELSE [pc |-> "loop", reddits |-> GetDbResults(ptbl), result |-> NoResult]

\* ask_gemini up to the loop: DB::new, get_db_results, read_config, each of which the
\* environment may fail (f names the one that does).
AskSetup(f, ptbl) ==
    IF f = "db_open"
    THEN [pc |-> "done", reddits |-> <<>>,
          result |-> Err(DatabaseError("Failed to connect to DB", "io"))]
    ELSE IF f = "db_read"
    THEN [pc |-> "done", reddits |-> <<>>,
          result |-> Err(DatabaseError("Failed to get DB results", "io"))]
    ELSE IF f = "config_read"
    THEN [pc |-> "done", reddits |-> GetDbResults(ptbl), result |-> Err(ConfigError("io"))]
    ELSE [pc |-> "loop", reddits |-> GetDbResults(ptbl), result |-> NoResult]

AskFaults == {"none", "db_open", "db_read", "config_read"}

\* ask_gemini(question) is called.
AskStart ==
    /\ pc = "idle"
    /\ \E q \in Questions : \E f \in AskFaults :
        LET r == AskSetup(f, posts) IN
        /\ fn' = "ask"
        /\ question' = q
        /\ fault' = f
        /\ pc' = r.pc
        /\ reddits' = r.reddits
        /\ result' = r.result
    /\ attempts' = 0
    /\ last_error' = NoError
    /\ failed_reads' = {}
    /\ UNCHANGED <<storeVars, config, all_comments, requests, resp, outstanding,
                   spinners, exports, main>>

\* LeadsSetup with the keyword check made after the store has been opened and read.
LeadsSetupLateKeywordCheck(f, failing, cfg, ptbl, ctbl) ==
    LET snapshot == GetDbResults(ptbl)
        cs == CollectComments(ctbl, snapshot, 1, failing)
        reached == failing \cap (1..Len(snapshot))
        stop(e, acs) == [pc |-> "done", fault |-> f, reddits |-> <<>>,
                         all_comments |-> acs, failed_reads |-> reached,
                         result |-> Err(e)]
        early(e) == [stop(e, <<>>) EXCEPT !.failed_reads = {}]
    IN
    IF f = "config_read" THEN early(ConfigError("io"))
    ELSE IF f = "db_open" THEN early(DatabaseError("Failed to connect to DB", "io"))
    ELSE IF f = "db_read" THEN early(DatabaseError("Failed to get posts", "io"))
    ELSE IF cfg.LEAD_KEYWORDS = <<>>
    THEN [stop(ConfigError("No lead keywords found in configuration file"), cs)
             EXCEPT !.fault = "none", !.reddits = snapshot]
    ELSE IF f = "db_open2" THEN stop(DatabaseError("Failed to connect to DB", "io"), cs)
    ELSE IF f = "db_read2" THEN stop(DatabaseError("Failed to get DB results", "io"), cs)
    ELSE IF f = "config_read2"
    THEN [stop(ConfigError("io"), cs) EXCEPT !.reddits = snapshot]
    ELSE [pc |-> "loop", fault |-> "none", reddits |-> snapshot, all_comments |-> cs,
          failed_reads |-> reached, result |-> NoResult]

\* gemini_generate_leads up to the loop: read_config, the keyword check, DB::new,
\* get_db_results, the comments of every post (a read in failing fails), then DB::new,
\* get_db_results and read_config once more.  f names the step the environment fails;
\* fault is f when that step is reached.
LeadsSetup(f, failing, cfg, ptbl, ctbl) ==
    LET snapshot == GetDbResults(ptbl)
        cs == CollectComments(ctbl, snapshot, 1, failing)
        reached == failing \cap (1..Len(snapshot))
        stop(e, acs) == [pc |-> "done", fault |-> f, reddits |-> <<>>,
                         all_comments |-> acs, failed_reads |-> reached,
                         result |-> Err(e)]
        early(e) == [stop(e, <<>>) EXCEPT !.failed_reads = {}]
    IN
    IF f = "config_read" THEN early(ConfigError("io"))
    ELSE IF cfg.LEAD_KEYWORDS = <<>>
    THEN [early(ConfigError("No lead keywords found in configuration file"))
             EXCEPT !.fault = "none"]
    ELSE IF f = "db_open" THEN early(DatabaseError("Failed to connect to DB", "io"))
    ELSE IF f = "db_read" THEN early(DatabaseError("Failed to get posts", "io"))
    ELSE IF f = "db_open2" THEN stop(DatabaseError("Failed to connect to DB", "io"), cs)
    ELSE IF f = "db_read2" THEN stop(DatabaseError("Failed to get DB results", "io"), cs)
    ELSE IF f = "config_read2"
    THEN [stop(ConfigError("io"), cs) EXCEPT !.reddits = snapshot]
    ELSE [pc |-> "loop", fault |-> "none", reddits |-> snapshot, all_comments |-> cs,
          failed_reads |-> reached, result |-> NoResult]

LeadsFaults ==
    {"none", "config_read", "db_open", "db_read", "db_open2", "db_read2", "config_read2"}

\* gemini_generate_leads() is called.
LeadsStart ==
    /\ pc = "idle"
    /\ \E f \in LeadsFaults : \E failing \in SUBSET (1..Len(posts)) :
        LET r == LeadsSetup(f, failing, config, posts, comments) IN
        /\ fn' = "leads"
        /\ fault' = r.fault
        /\ pc' = r.pc
        /\ reddits' = r.reddits
        /\ all_comments' = r.all_comments
        /\ failed_reads' = r.failed_reads
        /\ result' = r.result
    /\ attempts' = 0
    /\ last_error' = NoError
    /\ UNCHANGED <<storeVars, config, question, requests, resp, outstanding, spinners,
                   exports, main>>

\* Exhausted returning the generic error whatever the attempts recorded.
ExhaustedGeneric(le) == Err(GeminiApiError("Unknown error after multiple attempts", ""))

\* Err(last_error.unwrap_or(GeminiApiError("Unknown error after multiple attempts")))
Exhausted(le) ==
    Err(IF le = NoError
        THEN GeminiApiError("Unknown error after multiple attempts", "")
        ELSE le)

\* AskIssue with the while test off by one (attempts <= max_attempts).
AskIssueOffByOne ==
    /\ fn = "ask" /\ pc = "loop"
    /\ IF attempts <= max_attempts
       THEN /\ attempts' = attempts + 1
            /\ requests' = Append(requests,
                   [system_prompt |-> [text |-> "Given the following data",
                                       payload |-> "posts", posts |-> reddits,
                                       comments |-> <<>>,
                                       constraints |-> {"answer the questions",
                                                        "be thorough", "provide URLs"}],
                    user_message |-> [text |-> question, keywords |-> "", operator |-> ""]])
            /\ spinners' = Append(spinners, [st |-> "spin", running |-> TRUE, i |-> 0])
            /\ outstanding' = outstanding + 1
            /\ pc' = "await"
            /\ UNCHANGED result
       ELSE /\ result' = Err(last_error)
            /\ pc' = "done"
            /\ UNCHANGED <<attempts, requests, spinners, outstanding>>
    /\ UNCHANGED <<storeVars, fn, question, config, reddits, all_comments, last_error,
                   resp, exports, fault, failed_reads, main>>

\* ask_gemini: the while test; an iteration up to the await of the provider call
\* (attempts += 1, the prompt, the spinner thread, the request), or the final Err.
AskIssue ==
    /\ fn = "ask" /\ pc = "loop"
    /\ IF attempts < max_attempts
       THEN /\ attempts' = attempts + 1
            /\ requests' = Append(requests,
                   [system_prompt |-> AskPrompt(attempts + 1, reddits),
                    user_message |-> AskMessage(question)])
            /\ spinners' = Append(spinners, NewSpinner)
            /\ outstanding' = outstanding + 1
            /\ pc' = "await"
            /\ UNCHANGED result
       ELSE /\ result' = Exhausted(last_error)
            /\ pc' = "done"
            /\ UNCHANGED <<attempts, requests, spinners, outstanding>>
    /\ UNCHANGED <<storeVars, fn, question, config, reddits, all_comments, last_error,
                   resp, exports, fault, failed_reads, main>>

\* gemini_generate_leads: the same for its loop.
LeadsIssue ==
    /\ fn = "leads" /\ pc = "loop"
    /\ IF attempts < max_attempts
       THEN /\ attempts' = attempts + 1
            /\ requests' = Append(requests,
                   [system_prompt |-> LeadsPrompt(attempts + 1, reddits, all_comments),
                    user_message |-> LeadsMessage(config)])
            /\ spinners' = Append(spinners, NewSpinner)
            /\ outstanding' = outstanding + 1
            /\ pc' = "await"
            /\ UNCHANGED result
       ELSE /\ result' = Exhausted(last_error)
            /\ pc' = "done"
            /\ UNCHANGED <<attempts, requests, spinners, outstanding>>
    /\ UNCHANGED <<storeVars, fn, question, config, reddits, all_comments, last_error,
                   resp, exports, fault, failed_reads, main>>

\* The provider answers the outstanding call: a text or a transport error.
ProviderReply ==
    /\ pc = "await" /\ outstanding > 0
    /\ \E o \in Outcomes : resp' = Append(resp, o)
    /\ outstanding' = outstanding - 1
    /\ pc' = "replied"
    /\ UNCHANGED <<storeVars, fn, question, config, reddits, all_comments, attempts,
                   last_error, result, requests, spinners, exports, fault, failed_reads, main>>

\* The spinner thread: one turn of while running_clone.load(..) { print; i = ..; sleep }.
SpinnerTick ==
    /\ \E k \in 1..Len(spinners) :
        /\ spinners[k].st = "spin" /\ spinners[k].running
        /\ spinners' = [spinners EXCEPT ![k].i = (spinners[k].i + 1) % SpinnerChars]
    /\ UNCHANGED <<storeVars, fn, question, config, pc, reddits, all_comments, attempts,
                   last_error, result, requests, resp, outstanding, exports, fault, failed_reads, main>>

\* The spinner thread reads running = false, clears its line and ends.
SpinnerExit ==
    /\ \E k \in 1..Len(spinners) :
        /\ spinners[k].st = "spin" /\ ~spinners[k].running
        /\ spinners' = [spinners EXCEPT ![k] = [st |-> "exited", running |-> FALSE, i |-> 0]]
    /\ UNCHANGED <<storeVars, fn, question, config, pc, reddits, all_comments, attempts,
                   last_error, result, requests, resp, outstanding, exports, fault, failed_reads, main>>

\* AskStop that leaves the flag set (no running.store(false) before the join).
AskStopKeepsRunning ==
    /\ fn = "ask" /\ pc = "replied"
    /\ pc' = "join"
    /\ UNCHANGED <<storeVars, fn, question, config, reddits, all_comments, attempts,
                   last_error, result, requests, resp, outstanding, spinners, exports,
                   fault, failed_reads, main>>

\* ask_gemini: running.store(false) of either match arm.
AskStop ==
    /\ fn = "ask" /\ pc = "replied"
    /\ spinners' = [spinners EXCEPT ![attempts].running = FALSE]
    /\ pc' = "join"
    /\ UNCHANGED <<storeVars, fn, question, config, reddits, all_comments, attempts,
                   last_error, result, requests, resp, outstanding, exports, fault, failed_reads, main>>

\* gemini_generate_leads: running.store(false) of either match arm.
LeadsStop ==
    /\ fn = "leads" /\ pc = "replied"
    /\ spinners' = [spinners EXCEPT ![attempts].running = FALSE]
    /\ pc' = "join"
    /\ UNCHANGED <<storeVars, fn, question, config, reddits, all_comments, attempts,
                   last_error, result, requests, resp, outstanding, exports, fault, failed_reads, main>>

\* AskJoin that does not wait for the thread (the handle is dropped, not joined).
AskJoinNoWait ==
    /\ fn = "ask" /\ pc = "join"
    /\ pc' = "process"
    /\ UNCHANGED <<storeVars, fn, question, config, reddits, all_comments, attempts,
                   last_error, result, requests, resp, outstanding, spinners, exports,
                   fault, failed_reads, main>>

\* ask_gemini: spinner_handle.join() returns once the thread has ended.
AskJoin ==
    /\ fn = "ask" /\ pc = "join"
    /\ spinners[attempts].st = "exited"
    /\ spinners' = [spinners EXCEPT ![attempts].st = "joined"]
    /\ pc' = "process"
    /\ UNCHANGED <<storeVars, fn, question, config, reddits, all_comments, attempts,
                   last_error, result, requests, resp, outstanding, exports, fault, failed_reads, main>>

\* gemini_generate_leads: spinner_handle.join().
LeadsJoin ==
    /\ fn = "leads" /\ pc = "join"
    /\ spinners[attempts].st = "exited"
    /\ spinners' = [spinners EXCEPT ![attempts].st = "joined"]
    /\ pc' = "process"
    /\ UNCHANGED <<storeVars, fn, question, config, reddits, all_comments, attempts,
                   last_error, result, requests, resp, outstanding, exports, fault, failed_reads, main>>

\* AskOutcome with a transport error not recorded (continue without last_error = ..).
AskOutcomeDropsTransportError(o, le) ==
    IF ~o.ok
    THEN [pc |-> "loop", result |-> NoResult, last_error |-> le]
    ELSE LET parsed == FromStr(Normalize(o.text)) IN
         IF parsed.ok
         THEN [pc |-> "done", result |-> Ok(parsed.val), last_error |-> le]
         ELSE [pc |-> "loop", result |-> NoResult,
               last_error |-> JsonParsingError(parsed, o.text)]

\* AskOutcome with a parse failure returned at once instead of retried.
AskOutcomeNoRetry(o, le) ==
    IF ~o.ok
    THEN [pc |-> "loop", result |-> NoResult,
          last_error |-> GeminiApiError("Failed to generate content", o.e)]
    ELSE LET parsed == FromStr(Normalize(o.text)) IN
         IF parsed.ok
         THEN [pc |-> "done", result |-> Ok(parsed.val), last_error |-> le]
         ELSE [pc |-> "done", result |-> Err(JsonParsingError(parsed, o.text)),
               last_error |-> JsonParsingError(parsed, o.text)]

\* AskOutcome with last_error written only while it is empty (the first failure kept).
AskOutcomeKeepFirst(o, le) ==
    IF ~o.ok
    THEN [pc |-> "loop", result |-> NoResult,
          last_error |-> IF le = NoError
                         THEN GeminiApiError("Failed to generate content", o.e)
                         ELSE le]
    ELSE LET parsed == FromStr(Normalize(o.text)) IN
         IF parsed.ok
         THEN [pc |-> "done", result |-> Ok(parsed.val), last_error |-> le]
         ELSE [pc |-> "loop", result |-> NoResult,
               last_error |-> IF le = NoError THEN JsonParsingError(parsed, o.text) ELSE le]

\* AskOutcome with json_str in the error message in place of text_response.
AskOutcomeReportsJsonStr(o, le) ==
    IF ~o.ok
    THEN [pc |-> "loop", result |-> NoResult,
          last_error |-> GeminiApiError("Failed to generate content", o.e)]
    ELSE LET parsed == FromStr(Normalize(o.text)) IN
         IF parsed.ok
         THEN [pc |-> "done", result |-> Ok(parsed.val), last_error |-> le]
         ELSE [pc |-> "loop", result |-> NoResult,
               last_error |-> JsonParsingError(parsed, Normalize(o.text))]

\* ask_gemini: what the iteration does with the provider's answer o once the spinner
\* is joined: record the transport error, or normalise and parse the text.
AskOutcome(o, le) ==
    IF ~o.ok
    THEN [pc |-> "loop", result |-> NoResult,
          last_error |-> GeminiApiError("Failed to generate content", o.e)]
    ELSE LET parsed == FromStr(Normalize(o.text)) IN
         IF parsed.ok
         THEN [pc |-> "done", result |-> Ok(parsed.val), last_error |-> le]
         ELSE [pc |-> "loop", result |-> NoResult,
               last_error |-> JsonParsingError(parsed, o.text)]

AskProcess ==
    /\ fn = "ask" /\ pc = "process"
    /\ LET r == AskOutcome(resp[Len(resp)], last_error) IN
        /\ pc' = r.pc
        /\ result' = r.result
        /\ last_error' = r.last_error
    /\ UNCHANGED <<storeVars, fn, question, config, reddits, all_comments, attempts,
                   requests, resp, outstanding, spinners, exports, fault, failed_reads, main>>

\* export_gemini_to_excel(json_str): the expect on the parse panics on a text that is
\* no JSON; writing the workbook fails when the environment fails it (saved = FALSE).
ExportGeminiToExcel(json_str, saved) ==
    IF ~FromStr(json_str).ok
    THEN "panic: Failed to parse JSON as an array or a single object"
    ELSE IF saved THEN "ok" ELSE "err"

\* gemini_generate_leads: what the iteration does with the provider's answer o: record
\* the transport error, or normalise the text, export it (expect) and validate it.
LeadsOutcome(o, le, saved) ==
    IF ~o.ok
    THEN [pc |-> "loop", result |-> NoResult, export |-> "not called",
          last_error |-> GeminiApiError("Failed to generate content", o.e)]
    ELSE LET json_str == NormalizeLeads(o.text)
             x == ExportGeminiToExcel(json_str, saved)
             parsed == FromStr(json_str)
         IN
         IF x # "ok"
         THEN [pc |-> "done", export |-> x, last_error |-> le,
               result |-> Panicked(Panic(IF x = "err"
                                         THEN "Failed to export gemini leads to excel"
                                         ELSE x))]
         ELSE IF parsed.ok
         THEN [pc |-> "done", result |-> Ok(NoValue), export |-> x, last_error |-> le]
         ELSE [pc |-> "loop", result |-> NoResult, export |-> x,
               last_error |-> JsonParsingError(parsed, o.text)]

LeadsProcess ==
    /\ fn = "leads" /\ pc = "process"
    /\ \E saved \in BOOLEAN :
        LET r == LeadsOutcome(resp[Len(resp)], last_error, saved) IN
        /\ pc' = r.pc
        /\ result' = r.result
        /\ last_error' = r.last_error
        /\ exports' = IF r.export = "not called"
                      THEN exports
                      ELSE Append(exports,
                                  [json_str |-> NormalizeLeads(resp[Len(resp)].text),
                                   rc |-> r.export])
    /\ UNCHANGED <<storeVars, fn, question, config, reddits, all_comments, attempts,
                   requests, resp, outstanding, spinners, fault, failed_reads, main>>

(***************************************************************************)
(* main.                                                                   *)
(***************************************************************************)

\* Args, as far as they decide what main does: comments is the post id given to
\* --comments ("" when absent), find is --find together with the --relevance it requires.
ArgSets ==
    [comments : {"", "0"}, find : BOOLEAN, gemini : BOOLEAN, export : BOOLEAN,
     clear : BOOLEAN, leads : BOOLEAN, settings : BOOLEAN]

NoArgs ==
    [comments |-> "", find |-> FALSE, gemini |-> FALSE, export |-> FALSE,
     clear |-> FALSE, leads |-> FALSE, settings |-> FALSE]

\* get_access_token: Ok with a token, Ok with an empty one, or Err.
TokenOutcomes == {"ok", "empty", "err"}

\* main before it runs: exit is how the process ended, did lists the calls main made,
\* upstream is what the comment endpoint answered to --comments, saved_for pairs each
\* comment the default fetch saved with the link of the post it was fetched for.
MainOff ==
    [pc |-> "off", args |-> NoArgs, token |-> "none", exit |-> "none", did |-> <<>>,
     upstream |-> "none", saved_for |-> {}]

extractVars ==
    <<fn, question, config, pc, reddits, all_comments, attempts, last_error, result,
      requests, resp, outstanding, spinners, exports, fault, failed_reads>>

Did(m, what) == [m EXCEPT !.did = Append(@, what)]

\* return Ok(()), return Err(e) through ?, or a panic of unwrap, expect or an index.
Exit(m, how) == [m EXCEPT !.pc = "exited", !.exit = how]

Ran(m, what) == \E k \in 1..Len(m.did) : m.did[k] = what

\* The posts a listing or a search returns: one sort order, no post twice.
Listings ==
    {b \in PostBatches :
        \A i, j \in 1..Len(b) :
            /\ b[i].relevance = b[j].relevance
            /\ (b[i].url = b[j].url) => (i = j)}

\* The states of the upstream comments: which of its bodies each comment shows.
Versions == {"x", "y"}

RECURSIVE SeqOf(_)
SeqOf(S) == IF S = {} THEN <<>> ELSE LET x == CHOOSE y \in S : TRUE IN <<x>> \o SeqOf(S \ {x})

\* The CommentDataWrapper values built from the second listing of
\* GET /comments/{post_id}: post_id is the id the request was made with.
UpstreamComments(post_id, v) ==
    SeqOf({[id |-> c.id, post_id |-> post_id,
            body |-> IF v \in c.bodies THEN v ELSE CHOOSE b \in c.bodies : TRUE] :
              c \in {d \in RedditComments : d.post_id = post_id}})

\* Authenticate with any token that get_access_token returns with Ok.
AuthenticateAnyToken(m, created, t) ==
    IF ~created THEN Exit(m, "panic")
    ELSE IF t # "err" THEN [m EXCEPT !.pc = "dispatch", !.token = t]
    ELSE Exit(Did([m EXCEPT !.token = t], "edit_config_file"), "ok")

\* create_default_config().unwrap(), read_config(), then the match on
\* get_access_token: Ok(t) if !t.is_empty() goes on; Ok(_) and Err(e) open the settings
\* file (a failure of the editor is printed) and return Ok(()).
Authenticate(m, created, t) ==
    IF ~created THEN Exit(m, "panic")
    ELSE IF t = "ok" THEN [m EXCEPT !.pc = "dispatch", !.token = t]
    ELSE Exit(Did([m EXCEPT !.token = t], "edit_config_file"), "ok")

MainAuth ==
    /\ main.pc = "off"
    /\ \E a \in ArgSets : \E created \in BOOLEAN : \E t \in TokenOutcomes :
        main' = Authenticate([MainOff EXCEPT !.args = a], created, t)
    /\ UNCHANGED <<storeVars, extractVars>>

\* if let Some(post_id) = args.comments: get_post_comments(..).expect(..), which is
\* Ok(Vec::new()) when the endpoint returns fewer than two listings; post_details[0]
\* and post_details[1] indexed; the wrappers appended; the export; return Ok(()).
CommentsBranch(m, ctbl, up, v, failAt) ==
    LET fetched == [Did(m, "get_post_comments") EXCEPT !.upstream = up]
        batch == UpstreamComments(m.args.comments, v)
        r == AppendCommentsOn(ctbl, batch, IF failAt > Len(batch) + 1 THEN 0 ELSE failAt)
        saved == Did(fetched, "append_comments")
        done == IF m.args.export THEN Did(saved, "export_comments_from_db") ELSE saved
    IN  IF up \in {"err", "short"}
        THEN [main |-> Exit(fetched, "panic"), tbl |-> ctbl, rc |-> "none"]
        ELSE IF r.rc # "ok" THEN [main |-> Exit(saved, "err"), tbl |-> r.tbl, rc |-> r.rc]
        ELSE [main |-> Exit(done, "ok"), tbl |-> r.tbl, rc |-> r.rc]

MainComments ==
    /\ main.pc = "dispatch" /\ main.args.comments # ""
    /\ \E up \in {"err", "short", "listings"} : \E v \in Versions : \E failAt \in 0..2 :
        LET r == CommentsBranch(main, comments, up, v, failAt)
            batch == UpstreamComments(main.args.comments, v)
        IN  /\ main' = r.main
            /\ comments' = r.tbl
            /\ lastOp' = IF r.rc = "none" THEN lastOp
                         ELSE [op |-> "append_comments", pbatch |-> <<>>, cbatch |-> batch,
                               rc |-> r.rc, reported |-> AddedComments(batch, r.rc)]
    /\ UNCHANGED <<posts, extractVars>>

\* if let (Some(keyword), Some(relevance)) = (args.find, &args.relevance):
\* search_subreddit_posts(..).expect(..), append_results(&posts)?, return Ok(()).
MainFind ==
    /\ main.pc = "dispatch" /\ main.args.comments = "" /\ main.args.find
    /\ \E found \in BOOLEAN : \E batch \in Listings : \E failAt \in 0..(Len(batch) + 1) :
        LET searched == Did(main, "search_subreddit_posts")
            r == AppendResultsOn(posts, batch, failAt)
        IN  IF ~found
            THEN main' = Exit(searched, "panic") /\ UNCHANGED <<posts, lastOp>>
            ELSE /\ main' = Exit(Did(searched, "append_results"),
                                 IF r.rc = "ok" THEN "ok" ELSE "err")
                 /\ posts' = r.tbl
                 /\ lastOp' = [op |-> "append_results", pbatch |-> batch, cbatch |-> <<>>,
                               rc |-> r.rc, reported |-> AddedResults(batch, r.rc)]
    /\ UNCHANGED <<comments, extractVars>>

\* if args.settings { edit_config_file().unwrap(); }  Args declares no open_db flag,
\* so the branch on it is never taken.
MainSettings ==
    /\ main.pc = "dispatch" /\ main.args.comments = "" /\ ~main.args.find
    /\ \E edited \in BOOLEAN :
        main' = IF ~main.args.settings THEN [main EXCEPT !.pc = "query"]
                ELSE IF edited THEN [Did(main, "edit_config_file") EXCEPT !.pc = "query"]
                ELSE Exit(Did(main, "edit_config_file"), "panic")
    /\ UNCHANGED <<storeVars, extractVars>>

\* if let Some(q) = args.gemini: ask_gemini(&q), its result printed, return Ok(()).
MainGemini ==
    /\ main.pc = "query" /\ main.args.gemini
    /\ \E o \in {"ok", "err", "panic"} :
        main' = Exit(Did(main, "ask_gemini"), IF o = "panic" THEN "panic" ELSE "ok")
    /\ UNCHANGED <<storeVars, extractVars>>

\* if args.export { create_excel() }: its result is printed.
MainExport ==
    /\ main.pc = "query" /\ ~main.args.gemini /\ main.args.export
    /\ main' = [Did(main, "create_excel") EXCEPT !.pc = "clear"]
    /\ UNCHANGED <<storeVars, extractVars>>

RECURSIVE FetchComments(_, _, _, _, _)
\* for post in &posts, from post k on: get_post_comments(&token, &post.id.to_string())
\* of the upstream API; an Err and an empty Vec are passed over, a first listing
\* without children panics on children[0], the comments of the second listing are
\* appended with post_id: post.id.to_string() unless there are none.
FetchComments(ctbl, listing, k, o, v) ==
    IF k > Len(listing) THEN [tbl |-> ctbl, exit |-> "ok", saved |-> {}]
    ELSE LET post == listing[k]
             found == UpstreamComments(I64ToString(post.id), v)
             r == AppendCommentsOn(ctbl, found, IF o[k] = "db error" THEN 1 ELSE 0)
             rest == FetchComments(r.tbl, listing, k + 1, o, v)
         IN  IF o[k] = "skip" THEN FetchComments(ctbl, listing, k + 1, o, v)
             ELSE IF o[k] = "no children" THEN [tbl |-> ctbl, exit |-> "panic", saved |-> {}]
             ELSE IF found = <<>> THEN FetchComments(ctbl, listing, k + 1, o, v)
             ELSE IF r.rc # "ok" THEN [tbl |-> ctbl, exit |-> "err", saved |-> {}]
             ELSE [rest EXCEPT !.saved = @ \cup {<<found[j].id, post.url>> :
                                                    j \in 1..Len(found)}]

\* else if !args.export && !args.clear && !args.leads && !args.settings: the default
\* fetch.  get_subreddit_posts(..).expect(..), append_results(&posts)?, then the
\* comments of each post.
MainFetch ==
    /\ main.pc = "query" /\ ~main.args.gemini
    /\ ~main.args.export /\ ~main.args.clear /\ ~main.args.leads /\ ~main.args.settings
    /\ \E listed \in BOOLEAN : \E batch \in Listings : \E failAt \in 0..(Len(batch) + 1) :
       \E o \in [1..Len(batch) -> {"skip", "no children", "listings", "db error"}] :
       \E v \in Versions :
        LET fetched == Did(main, "get_subreddit_posts")
            r == AppendResultsOn(posts, batch, failAt)
            appended == Did(fetched, "append_results")
            c == FetchComments(comments, batch, 1, o, v)
        IN  IF ~listed
            THEN main' = Exit(fetched, "panic") /\ UNCHANGED storeVars
            ELSE /\ posts' = r.tbl
                 /\ lastOp' = [op |-> "append_results", pbatch |-> batch, cbatch |-> <<>>,
                               rc |-> r.rc, reported |-> AddedResults(batch, r.rc)]
                 /\ IF r.rc # "ok"
                    THEN main' = Exit(appended, "err") /\ UNCHANGED comments
                    ELSE /\ comments' = c.tbl
                         /\ main' = IF c.exit = "ok"
                                    THEN [appended EXCEPT !.pc = "clear",
                                                          !.saved_for = c.saved]
                                    ELSE Exit([appended EXCEPT !.saved_for = c.saved],
                                              c.exit)
    /\ UNCHANGED extractVars

\* else if args.leads: gemini_generate_leads(); both arms return Ok(()).
MainLeads ==
    /\ main.pc = "query" /\ ~main.args.gemini /\ ~main.args.export
    /\ main.args.clear \/ main.args.leads \/ main.args.settings
    /\ main.args.leads
    /\ \E o \in {"ok", "err", "panic"} :
        main' = Exit(Did(main, "gemini_generate_leads"),
                     IF o = "panic" THEN "panic" ELSE "ok")
    /\ UNCHANGED <<storeVars, extractVars>>

\* None of the three branches applies.
MainSkip ==
    /\ main.pc = "query" /\ ~main.args.gemini /\ ~main.args.export
    /\ main.args.clear \/ main.args.leads \/ main.args.settings
    /\ ~main.args.leads
    /\ main' = [main EXCEPT !.pc = "clear"]
    /\ UNCHANGED <<storeVars, extractVars>>

\* if args.clear { database::clear::clear_database()?; } Ok(()): DB::new()? may fail,
\* a failure of the DELETE statements is printed.
MainClear ==
    /\ main.pc = "clear"
    /\ \E opened \in BOOLEAN : \E failAt \in 0..2 :
        IF ~main.args.clear
        THEN main' = Exit(main, "ok") /\ UNCHANGED storeVars
        ELSE IF ~opened
        THEN main' = Exit(Did(main, "clear_database"), "err") /\ UNCHANGED storeVars
        ELSE /\ main' = Exit(Did(main, "clear_database"), "ok")
             /\ posts' = IF failAt = 1 THEN posts ELSE <<>>
             /\ comments' = IF failAt = 0 THEN <<>> ELSE comments
             /\ lastOp' = [op |-> "clear_database", pbatch |-> <<>>, cbatch |-> <<>>,
                           rc |-> IF failAt = 0 THEN "ok" ELSE "io", reported |-> 0]
    /\ UNCHANGED extractVars

(***************************************************************************)
(* Specifications.                                                         *)
(***************************************************************************)

CallInit ==
    /\ fn = "none"
    /\ question = ""
    /\ pc = "idle"
    /\ reddits = <<>>
    /\ all_comments = <<>>
    /\ attempts = 0
    /\ last_error = NoError
    /\ result = NoResult
    /\ requests = <<>>
    /\ resp = <<>>
    /\ outstanding = 0
    /\ spinners = <<>>
    /\ exports = <<>>
    /\ fault = "none"
    /\ failed_reads = {}
    /\ main = MainOff

PostIn(i, ts, title, url) ==
    [id |-> i, timestamp |-> ts, title |-> title, url |-> url, relevance |-> "hot"]

CommentIn(id, post_id, body) == [id |-> id, post_id |-> post_id, body |-> body]

\* Stores the program leaves behind: the empty one, and the ones a few append_results
\* and append_comments calls build from it.
InitStores ==
    {[posts |-> <<>>, comments |-> <<>>],
     [posts |-> AppendResultsOn(<<>>, <<PostIn(0, 10, "a", "u1")>>, 0).tbl,
      comments |-> AppendCommentsOn(<<>>, <<CommentIn("c1", "0", "x")>>, 0).tbl],
     [posts |-> AppendResultsOn(<<>>, <<PostIn(0, 10, "a", "u1"),
                                        PostIn(1, 20, "b", "u2")>>, 0).tbl,
      comments |-> AppendCommentsOn(<<>>, <<CommentIn("c1", "0", "x"),
                                            CommentIn("c2", "1", "x")>>, 0).tbl]}

\* One extraction call over a store and a settings file.
Init ==
    /\ \E s \in InitStores : posts = s.posts /\ comments = s.comments
    /\ lastOp = NoOp
    /\ config \in Configs
    /\ CallInit

Next ==
    \/ AskStart
    \/ LeadsStart
    \/ AskIssue
    \/ LeadsIssue
    \/ ProviderReply
    \/ SpinnerTick
    \/ SpinnerExit
    \/ AskStop
    \/ LeadsStop
    \/ AskJoin
    \/ LeadsJoin
    \/ AskProcess
    \/ LeadsProcess

Spec == Init /\ [][Next]_vars

\* The store under any sequence of its operations, from the empty tables.
StoreInit ==
    /\ posts = <<>>
    /\ comments = <<>>
    /\ lastOp = NoOp
    /\ config = [LEAD_KEYWORDS |-> <<"k1">>, MATCH |-> "AND"]
    /\ CallInit

StoreNext ==
    \/ AppendResults
    \/ AppendComments
    \/ ClearDatabase

StoreSpec == StoreInit /\ [][StoreNext]_vars

\* Responses built from parts: whitespace, a fence opener with or without a tag, a
\* payload, a fence closer, whitespace.
Pads == {<<>>, <<" ">>, <<"NL">>}

Breaks == {<<>>, <<"NL">>}

TagJs == <<"j", "s">>

TagUpper == <<"J", "S", "O", "N">>

Openers ==
    {<<>>, Fence, FenceJson, Fence \o Fence, FenceJson \o FenceJson, Fence \o TagJs,
     Fence \o TagUpper}

Closers == {<<>>, Fence, Fence \o Fence}

ValidBodies == {<<"1">>, <<"[", "1", "]">>, <<"[", "]">>}

Bodies == ValidBodies \cup {<<"[", "1", ",">>, <<"s", "o">>, <<>>}

FencedTexts ==
    {lead \o open \o b1 \o body \o b2 \o close \o trail :
        lead \in Pads, open \in Openers, b1 \in Breaks, body \in Bodies, b2 \in Breaks,
        close \in Closers, trail \in Pads}

\* What the provider answers on a second attempt in TextSpec.
SecondOutcomes ==
    {[ok |-> TRUE, text |-> JsonArray, e |-> ""],
     [ok |-> FALSE, text |-> <<>>, e |-> "timeout"]}

\* The provider answers the outstanding call; the first answer is any of FencedTexts.
ProviderReplyText ==
    /\ pc = "await" /\ outstanding > 0
    /\ \E o \in IF resp = <<>>
                THEN {[ok |-> TRUE, text |-> t, e |-> ""] : t \in FencedTexts}
                ELSE SecondOutcomes :
           resp' = Append(resp, o)
    /\ outstanding' = outstanding - 1
    /\ pc' = "replied"
    /\ UNCHANGED <<storeVars, fn, question, config, reddits, all_comments, attempts,
                   last_error, result, requests, spinners, exports, fault, failed_reads, main>>

\* One extraction call whose first answer ranges over FencedTexts, over one store and
\* one settings file; the spinner thread ends without a turn of its loop.
TextInit ==
    /\ posts = AppendResultsOn(<<>>, <<PostIn(0, 10, "a", "u1")>>, 0).tbl
    /\ comments = AppendCommentsOn(<<>>, <<CommentIn("c1", "0", "x")>>, 0).tbl
    /\ lastOp = NoOp
    /\ config = [LEAD_KEYWORDS |-> <<"k1">>, MATCH |-> "AND"]
    /\ CallInit

TextNext ==
    \/ AskStart
    \/ LeadsStart
    \/ AskIssue
    \/ LeadsIssue
    \/ ProviderReplyText
    \/ SpinnerExit
    \/ AskStop
    \/ LeadsStop
    \/ AskJoin
    \/ LeadsJoin
    \/ AskProcess
    \/ LeadsProcess

TextSpec == TextInit /\ [][TextNext]_vars

\* An extraction call while another run of the program clears the store (ruddit
\* --clear on the same database file).
SharedNext ==
    \/ Next
    \/ ClearDatabase

SharedSpec == Init /\ [][SharedNext]_vars

\* The steps of the thread that runs the extraction call, up to the join.
CallerStep ==
    \/ AskIssue
    \/ LeadsIssue
    \/ AskStop
    \/ LeadsStop
    \/ AskJoin
    \/ LeadsJoin

\* Its step after the join, AskProcess or LeadsProcess: one of them can be taken in
\* every state at that position, and it goes back to the loop or returns.
ProcessStep == pc = "process" /\ pc' \in {"loop", "done"}

\* An extraction call whose threads are scheduled: the calling thread takes its next
\* step when it has one, a spinner thread whose flag is cleared leaves its loop at the
\* next load, and the provider answers every call made to it.
LiveSpec ==
    /\ Init
    /\ [][Next]_vars
    /\ WF_vars(CallerStep)
    /\ WF_pc(ProcessStep)
    /\ WF_vars(SpinnerExit)
    /\ WF_vars(ProviderReply)

\* One run of main over a store the program left behind.
MainInit ==
    /\ \E s \in InitStores : posts = s.posts /\ comments = s.comments
    /\ lastOp = NoOp
    /\ config = [LEAD_KEYWORDS |-> <<"k1">>, MATCH |-> "AND"]
    /\ CallInit

MainNext ==
    \/ MainAuth
    \/ MainComments
    \/ MainFind
    \/ MainSettings
    \/ MainGemini
    \/ MainExport
    \/ MainFetch
    \/ MainLeads
    \/ MainSkip
    \/ MainClear

MainSpec == MainInit /\ [][MainNext]_vars

(***************************************************************************)
(* The claims.                                                             *)
(***************************************************************************)

\* The text of answer k is JSON as it stands.
ValidRaw(k) == resp[k].ok /\ FromStr(resp[k].text).ok

\* ask_gemini: answer k is a text that is JSON once normalised.
ValidNormalized(k) == resp[k].ok /\ FromStr(Normalize(resp[k].text)).ok

\* ask_gemini: answer k is a text that is no JSON once normalised.
InvalidNormalized(k) == resp[k].ok /\ ~FromStr(Normalize(resp[k].text)).ok

\* C1: when the first answer is valid unfenced JSON, one provider call is made in the
\* whole call, ask_gemini returns the value parsed from it and gemini_generate_leads
\* returns success.
C1_FirstValidAnswerReturned ==
    (Len(resp) >= 1 /\ ValidRaw(1)) =>
        /\ Len(requests) = 1
        /\ pc = "done" =>
            /\ fn = "ask" => result = Ok(FromStr(resp[1].text).val)
            /\ fn = "leads" => result.status = "ok"

\* C2: in ask_gemini, after a first answer that is no JSON once normalised, the call
\* ends only after a second provider call, and when the second answer is JSON the call
\* returns the value parsed from that second answer.
C2_SecondAnswerReturned ==
    (fn = "ask" /\ pc = "done" /\ Len(resp) >= 1 /\ InvalidNormalized(1)) =>
        /\ Len(requests) = 2
        /\ Len(resp) = 2
        /\ ValidNormalized(2) => result = Ok(FromStr(Normalize(resp[2].text)).val)

C2_Witness ==
    /\ fn = "ask" /\ pc = "done"
    /\ Len(resp) = 2 /\ InvalidNormalized(1) /\ ValidNormalized(2)
    /\ resp[2].text = FencedPlain
    /\ result.status = "ok"

\* Every answer so far is a transport error.
AllTransportErrors == \A k \in 1..Len(resp) : ~resp[k].ok

\* C3: when every provider call fails with a transport error, ask_gemini and
\* gemini_generate_leads return a GeminiApiError carrying the transport error of the
\* last attempt, after exactly max_attempts provider calls.
C3_TransportErrorsExhaust ==
    (pc = "done" /\ resp # <<>> /\ AllTransportErrors) =>
        /\ Len(requests) = max_attempts
        /\ Len(resp) = max_attempts
        /\ result.status = "err"
        /\ result.err.kind = "GeminiApiError"
        /\ result.err.msg = <<"Failed to generate content", resp[max_attempts].e>>

C3_Witness ==
    /\ fn = "leads" /\ pc = "done"
    /\ Len(resp) = 2 /\ AllTransportErrors
    /\ resp[1].e = "timeout" /\ resp[2].e = "http 500"
    /\ result.err.msg[2] = "http 500"

\* C4: in ask_gemini, when every answer is a text that is no JSON, the call returns a
\* JsonParsingError with the parser error and the raw text of the last answer, after
\* exactly max_attempts provider calls.
C4_ParseErrorsExhaust ==
    (fn = "ask" /\ pc = "done" /\ resp # <<>>
        /\ \A k \in 1..Len(resp) : InvalidNormalized(k)) =>
        /\ Len(requests) = max_attempts
        /\ Len(resp) = max_attempts
        /\ result.status = "err"
        /\ result.err.kind = "JsonParsingError"
        /\ result.err.raw = resp[max_attempts].text
        /\ result.err.msg[2] = FromStr(Normalize(resp[max_attempts].text)).msg
        /\ result.err.at = FromStr(Normalize(resp[max_attempts].text)).at

C4_Witness ==
    /\ fn = "ask" /\ pc = "done"
    /\ Len(resp) = 2
    /\ resp[1].text = Truncated /\ resp[2].text = FencedProse
    /\ result.err.kind = "JsonParsingError"
    /\ result.err.raw = FencedProse
    /\ result.err.msg[2] = "expected value"

\* gemini_generate_leads: the last answer is a text that is no JSON once normalised.
LastInvalidForLeads ==
    /\ resp # <<>>
    /\ resp[Len(resp)].ok
    /\ ~FromStr(NormalizeLeads(resp[Len(resp)].text)).ok

\* C5: in gemini_generate_leads an answer that is no JSON once normalised is recorded
\* as a JsonParsingError and retried: the call does not end before the second provider
\* call, and ends with a JsonParsingError value, never with a panic.
C5_LeadsMalformedRetried ==
    (fn = "leads" /\ pc = "done" /\ LastInvalidForLeads) =>
        /\ Len(requests) = max_attempts
        /\ result.status = "err"
        /\ result.err.kind = "JsonParsingError"

\* The outcome of provider call n has been recorded in last_error.
Recorded(n) ==
    IF resp[n].ok
    THEN last_error.kind = "JsonParsingError" /\ last_error.raw = resp[n].text
    ELSE last_error.kind = "GeminiApiError" /\ last_error.msg[2] = resp[n].e

\* C6: at most max_attempts provider calls are made, at most one is outstanding, and a
\* provider call is issued only when every earlier one has been answered and the answer
\* of the one before it has been recorded.
C6_SequentialBoundedCalls ==
    /\ [](Len(requests) <= max_attempts /\ outstanding <= 1)
    /\ [][Len(requests') > Len(requests) =>
            /\ outstanding = 0
            /\ Len(resp) = Len(requests)
            /\ Len(requests) > 0 => Recorded(Len(requests))]_vars

C6_Witness ==
    /\ Len(requests) = 2 /\ outstanding = 1 /\ Len(resp) = 1
    /\ fn = "leads"

AllJoined == \A k \in 1..Len(spinners) : spinners[k].st = "joined" /\ ~spinners[k].running

\* C7: at most one spinner thread is alive at any time, none is when the call has
\* ended, and the loop records an outcome, issues a provider call or ends only when
\* every spinner thread spawned so far has been told to stop and has been joined.
C7_SpinnerJoinedBeforeProceeding ==
    /\ [](Cardinality(Live(spinners)) <= 1 /\ (pc = "done" => AllJoined))
    /\ [][(\/ last_error' # last_error
           \/ Len(requests') > Len(requests)
           \/ result' # result) => AllJoined]_vars

C7_Witness ==
    /\ fn = "ask" /\ pc = "done"
    /\ Len(spinners) = 2 /\ AllJoined
    /\ ~resp[1].ok /\ resp[2].ok /\ result.status = "ok"

StoreFaults == {"db_open", "db_read", "db_open2", "db_read2"}

ConfigFaults == {"config_read", "config_read2"}

\* C8: when opening the store, reading the posts or reading the settings fails, the
\* call has ended with a DatabaseError or a ConfigError respectively, and no provider
\* call was made, no attempt was counted and no spinner was started.
C8_SetupFailureAborts ==
    (fault \in StoreFaults \cup ConfigFaults) =>
        /\ pc = "done"
        /\ result.status = "err"
        /\ result.err.kind = IF fault \in StoreFaults THEN "DatabaseError" ELSE "ConfigError"
        /\ requests = <<>> /\ resp = <<>> /\ outstanding = 0
        /\ attempts = 0
        /\ spinners = <<>>

C8_Witness ==
    /\ fn = "leads" /\ fault = "db_read2" /\ pc = "done"
    /\ result.err.kind = "DatabaseError"
    /\ posts # <<>>

\* The number of rows of tbl whose column col holds v.
Count(tbl, col, v) == Cardinality({k \in 1..Len(tbl) : tbl[k][col] = v})

\* The rows of a table, their order left aside.
Rows(tbl) == {tbl[k] : k \in 1..Len(tbl)}

\* C9: whatever append_results and append_comments calls came before, appending a
\* batch whose records repeat stored identifiers, or each other's, returns no error
\* unless a statement or the commit fails on I/O, and leaves exactly one row for
\* each identifier: one row per url and per id in reddit_posts, one row per id in
\* reddit_comments.
C9_ReinsertKeepsOneRecord ==
    /\ \A batch \in PostBatches :
           LET r == AppendResultsOn(posts, batch, 0) IN
           /\ r.rc = "ok"
           /\ \A k \in 1..Len(batch) : Count(r.tbl, "url", batch[k].url) = 1
           /\ \A j \in 1..Len(r.tbl) : Count(r.tbl, "id", r.tbl[j].id) = 1
    /\ \A batch \in CommentBatches :
           LET r == AppendCommentsOn(comments, batch, 0) IN
           /\ r.rc = "ok"
           /\ \A k \in 1..Len(batch) : Count(r.tbl, "id", batch[k].id) = 1
    /\ lastOp.rc \in {"ok", "io"}
    /\ (lastOp.op = "append_results" /\ lastOp.rc = "ok") =>
           \A k \in 1..Len(lastOp.pbatch) : Count(posts, "url", lastOp.pbatch[k].url) = 1
    /\ (lastOp.op = "append_comments" /\ lastOp.rc = "ok") =>
           \A k \in 1..Len(lastOp.cbatch) : Count(comments, "id", lastOp.cbatch[k].id) = 1
    /\ \A j \in 1..Len(posts) :
           Count(posts, "id", posts[j].id) = 1 /\ Count(posts, "url", posts[j].url) = 1
    /\ \A j \in 1..Len(comments) : Count(comments, "id", comments[j].id) = 1

C9_Witness ==
    /\ lastOp.op = "append_results" /\ lastOp.rc = "ok"
    /\ Len(lastOp.pbatch) = 2
    /\ lastOp.pbatch[1].url = lastOp.pbatch[2].url
    /\ lastOp.pbatch[1].relevance # lastOp.pbatch[2].relevance
    /\ Len(posts) = 2
    /\ Len(comments) = 2

\* Every record of the batch repeats an identifier the table holds.
AllStoredPosts(tbl, batch) == \A k \in 1..Len(batch) : PostConflict(tbl, batch[k])

AllStoredComments(tbl, batch) == \A k \in 1..Len(batch) : CommentConflict(tbl, batch[k])

\* C10 as stated: a successful append of records whose identifiers are all stored
\* leaves the records of the store as they were, for posts and for comments.
C10_ReinsertIsNoOp ==
    [][/\ (lastOp'.op = "append_results" /\ lastOp'.rc = "ok"
              /\ AllStoredPosts(posts, lastOp'.pbatch)) => Rows(posts') = Rows(posts)
       /\ (lastOp'.op = "append_comments" /\ lastOp'.rc = "ok"
              /\ AllStoredComments(comments, lastOp'.cbatch))
              => Rows(comments') = Rows(comments)]_vars

\* The last record of the batch with the identifier of record k.
LastWithId(batch, k) ==
    batch[CHOOSE j \in k..Len(batch) :
              /\ batch[j].id = batch[k].id
              /\ \A i \in (j + 1)..Len(batch) : batch[i].id # batch[k].id]

\* C10 amended: a successful append_results keeps every stored post as it was, so a
\* batch of stored urls changes nothing; a successful append_comments leaves, for each
\* identifier of the batch, one row holding the values of the last record of the
\* batch with that identifier, and keeps the rows of all other identifiers.
C10_PostKeptCommentReplaced ==
    [][/\ (lastOp'.op = "append_results" /\ lastOp'.rc = "ok") =>
              /\ Len(posts') >= Len(posts)
              /\ SubSeq(posts', 1, Len(posts)) = posts
              /\ AllStoredPosts(posts, lastOp'.pbatch) => posts' = posts
       /\ (lastOp'.op = "append_comments" /\ lastOp'.rc = "ok") =>
              LET batch == lastOp'.cbatch
                  ids == {batch[k].id : k \in 1..Len(batch)} IN
              /\ \A k \in 1..Len(batch) :
                     {row \in Rows(comments') : row.id = batch[k].id}
                         = {LastWithId(batch, k)}
              /\ {row \in Rows(comments') : row.id \notin ids}
                     = {row \in Rows(comments) : row.id \notin ids}]_vars

C10_Witness ==
    /\ lastOp.op = "append_comments" /\ lastOp.rc = "ok"
    /\ Len(lastOp.cbatch) = 2
    /\ lastOp.cbatch[1].id = lastOp.cbatch[2].id
    /\ lastOp.cbatch[1].body # lastOp.cbatch[2].body
    /\ \E k \in 1..Len(comments) : comments[k] = lastOp.cbatch[2]
    /\ Len(comments) = 2
    /\ posts # <<>>

\* C11: in ask_gemini, when the attempts fail in different ways the error returned is
\* the one of the last attempt: a transport error then a text that is no JSON gives
\* the JsonParsingError of the second answer (its parser error and raw text); a text
\* that is no JSON then a transport error gives the GeminiApiError of the second call.
C11_LastErrorOfMixedFailures ==
    (fn = "ask" /\ pc = "done" /\ Len(resp) = max_attempts) =>
        /\ (~resp[1].ok /\ InvalidNormalized(2)) =>
               /\ result.status = "err"
               /\ result.err.kind = "JsonParsingError"
               /\ result.err.raw = resp[2].text
               /\ result.err.msg[2] = FromStr(Normalize(resp[2].text)).msg
               /\ result.err.at = FromStr(Normalize(resp[2].text)).at
        /\ (InvalidNormalized(1) /\ ~resp[2].ok) =>
               /\ result.status = "err"
               /\ result.err.kind = "GeminiApiError"
               /\ result.err.msg = <<"Failed to generate content", resp[2].e>>
               /\ result.err.raw = <<>>

C11_Witness ==
    /\ fn = "ask" /\ pc = "done" /\ Len(resp) = 2
    /\ resp[1].ok /\ resp[1].text = Prose
    /\ ~resp[2].ok /\ resp[2].e = "timeout"
    /\ result.err.kind = "GeminiApiError"
    /\ result.err.msg[2] = "timeout"

\* gemini_generate_leads: answer k is a text that is JSON once normalised.
ValidNormalizedLeads(k) == resp[k].ok /\ FromStr(NormalizeLeads(resp[k].text)).ok

\* C12: a transport error on the first attempt does not end the call: it ends only
\* after a second provider call, and when the second answer is JSON once normalised
\* the call succeeds (ask_gemini with the value parsed from the second answer).
C12_TransportErrorThenSuccess ==
    (pc = "done" /\ Len(resp) >= 1 /\ ~resp[1].ok) =>
        /\ Len(requests) = 2
        /\ Len(resp) = 2
        /\ (fn = "ask" /\ ValidNormalized(2)) =>
               result = Ok(FromStr(Normalize(resp[2].text)).val)
        /\ (fn = "leads" /\ ValidNormalizedLeads(2)) => result.status = "ok"

\* J inside a fence, plain or tagged json, with whitespace around and inside.
Wrapped(J) ==
    {lead \o open \o b1 \o J \o b2 \o Fence \o trail :
        lead \in Pads, open \in {Fence, FenceJson}, b1 \in Breaks, b2 \in Breaks,
        trail \in Pads}

\* What the call gives for the answer J itself, told from the state: ask_gemini
\* returns the value of J after one provider call; gemini_generate_leads hands a text
\* with the value of J to the export after one provider call and ends as the export
\* ends.
OutcomeOf(J) ==
    /\ Len(requests) = 1
    /\ (fn = "ask" /\ pc \in {"loop", "done"}) =>
           pc = "done" /\ result = Ok(FromStr(J).val)
    /\ (fn = "leads" /\ pc \in {"loop", "done"}) =>
           /\ pc = "done"
           /\ Len(exports) = 1
           /\ FromStr(exports[1].json_str).ok
           /\ FromStr(exports[1].json_str).val = FromStr(J).val
           /\ result = IF exports[1].rc = "ok"
                       THEN Ok(NoValue)
                       ELSE Panicked(Panic("Failed to export gemini leads to excel"))

\* C13: a first answer that wraps the valid JSON text J in a fence, plain or tagged
\* json, with whitespace or line breaks around it, gives the outcome the answer J
\* gives: the same value and one provider call.
C13_FencedSameAsUnfenced ==
    \A J \in ValidBodies :
        (Len(resp) >= 1 /\ resp[1].ok /\ resp[1].text \in Wrapped(J) \cup {J}) =>
            OutcomeOf(J)

C13_Witness ==
    /\ fn = "ask" /\ pc = "done"
    /\ resp = <<[ok |-> TRUE, e |-> "",
                 text |-> <<"NL">> \o FenceJson \o <<"NL", "[", "1", "]", "NL">>
                              \o Fence \o <<" ">>]>>
    /\ result = Ok(JArr(<<JNum(1)>>))

\* C14: in gemini_generate_leads the export is called only with a text that has been
\* parsed as JSON: every call of export_gemini_to_excel is for an answer whose
\* normalised text is JSON, none is made for an answer that fails the validation, and
\* one call makes at most one export.
C14_ExportOnlyAfterValidation ==
    /\ Len(exports) <= 1
    /\ \A k \in 1..Len(exports) :
           /\ FromStr(exports[k].json_str).ok
           /\ exports[k].rc \in {"ok", "err"}

\* C15: when the provider returned JSON and the export fails, gemini_generate_leads
\* still returns: success, or at least an error value, and the process goes on.
C15_ExportFailureNotFatal ==
    (fn = "leads" /\ pc = "done" /\ exports # <<>>
        /\ FromStr(exports[Len(exports)].json_str).ok
        /\ exports[Len(exports)].rc = "err") =>
        result.status \in {"ok", "err"}

\* C16: the number append_results reports (Added N results, and main's N new posts)
\* is the number of rows the call added to reddit_posts: records ignored as
\* duplicates are not counted.
C16_ReportedCountIsInserted ==
    [][(lastOp'.op = "append_results" /\ lastOp'.rc = "ok") =>
           lastOp'.reported = Len(posts') - Len(posts)]_vars

\* C17: ask_gemini and gemini_generate_leads never write the store, and read it only
\* before the loop: no step of the call changes posts or comments, the snapshot taken
\* at the start of the call is not replaced once the call has started, and every
\* request carries that snapshot, whatever has happened to the store since.
C17_StoreReadOnceNeverWritten ==
    /\ [][(callVars' # callVars) => (posts' = posts /\ comments' = comments)]_vars
    /\ [][(pc # "idle") => (reddits' = reddits /\ all_comments' = all_comments)]_vars
    /\ [](\A k \in 1..Len(requests) :
             /\ requests[k].system_prompt.posts = reddits
             /\ requests[k].system_prompt.comments \in {<<>>, all_comments})

C17_Witness ==
    /\ fn = "ask" /\ Len(requests) = 2
    /\ reddits # <<>>
    /\ posts = <<>> /\ comments = <<>>
    /\ lastOp.op = "clear_database"
    /\ requests[2].system_prompt.posts = reddits

\* C18: in gemini_generate_leads a failed read of the comments of a post ends the call
\* with a DatabaseError before any provider call, as every other failed store read
\* does.
C18_CommentReadFailurePropagated ==
    (fn = "leads" /\ failed_reads # {}) =>
        /\ pc = "done"
        /\ result.status = "err"
        /\ result.err.kind = "DatabaseError"
        /\ requests = <<>>
        /\ attempts = 0

\* s without its first Len(p) characters.
DropPrefix(s, p) == SubSeq(s, Len(p) + 1, Len(s))

\* s without one trailing p, when it ends with p.
DropSuffix(s, p) == IF EndsWith(s, p) THEN SubSeq(s, 1, Len(s) - Len(p)) ELSE s

\* The rule as stated: of the trimmed text, one json fence prefix and one trailing
\* fence are removed, else one plain fence prefix and one trailing fence, else
\* nothing; whitespace left around the remainder is trimmed.
StatedRule(text) ==
    LET t == Trim(text) IN
    IF StartsWith(t, FenceJson) THEN Trim(DropSuffix(DropPrefix(t, FenceJson), Fence))
    ELSE IF StartsWith(t, Fence) THEN Trim(DropSuffix(DropPrefix(t, Fence), Fence))
    ELSE t

\* The first answer is a text and the first attempt has dealt with it.
FirstTextProcessed == Len(resp) = 1 /\ resp[1].ok /\ pc \in {"loop", "done"}

\* C19: for every answer the text the call parses is the one the stated rule gives:
\* ask_gemini returns the value of that text or records its parse error, and
\* gemini_generate_leads hands that text to the export.
C19_NormalizationIsStatedRule ==
    /\ (fn = "ask" /\ FirstTextProcessed) =>
           LET parsed == FromStr(StatedRule(resp[1].text)) IN
           IF parsed.ok
           THEN pc = "done" /\ result = Ok(parsed.val)
           ELSE /\ pc = "loop"
                /\ last_error.kind = "JsonParsingError"
                /\ last_error.msg[2] = parsed.msg
                /\ last_error.at = parsed.at
    /\ (fn = "leads" /\ FirstTextProcessed) =>
           /\ Len(exports) = 1
           /\ exports[1].json_str = StatedRule(resp[1].text)

\* A valid JSON text inside a fence whose opener has no tag, or a tag followed by a
\* line break.
TaggedFence(J) ==
    {lead \o Fence \o tag \o <<"NL">> \o J \o b2 \o Fence \o trail :
        lead \in Pads, tag \in {<<>>, <<"j", "s", "o", "n">>, TagJs, TagUpper},
        b2 \in Breaks, trail \in Pads}

\* C20: in ask_gemini an answer that is valid JSON inside a fence, whatever the tag
\* of the opener, is parsed on the first attempt: the call returns the value of the
\* JSON inside after one provider call.
C20_AnyFenceTagStripped ==
    \A J \in ValidBodies :
        (fn = "ask" /\ FirstTextProcessed /\ resp[1].text \in TaggedFence(J)) =>
            /\ pc = "done"
            /\ result = Ok(FromStr(J).val)
            /\ Len(requests) = 1

\* What a stricter instruction asks at least: JSON only, no prose, no fences.
StrictConstraints ==
    {"only a JSON array of objects", "no text outside the JSON", "no markdown blocks"}

\* C21: in ask_gemini and gemini_generate_leads the system prompt of the second
\* attempt is another text than the one of the first and is stricter: it asks all the
\* first one asks of the output, and asks for JSON only, no prose and no fences.
C21_SecondPromptStricter ==
    (Len(requests) = 2) =>
        /\ requests[2].system_prompt.text # requests[1].system_prompt.text
        /\ requests[1].system_prompt.constraints \subseteq
               requests[2].system_prompt.constraints
        /\ StrictConstraints \subseteq requests[2].system_prompt.constraints

\* C22: in gemini_generate_leads every attempt sends the same data, the stored posts
\* with the comments collected for them; the second attempt changes the wording only.
C22_SamePayloadEveryAttempt ==
    \A k \in 1..Len(requests) :
        (fn = "leads") =>
            /\ requests[k].system_prompt.payload = "posts and comments"
            /\ requests[k].system_prompt.posts = reddits
            /\ requests[k].system_prompt.comments = all_comments
            /\ requests[k].system_prompt.payload = requests[1].system_prompt.payload
            /\ requests[k].system_prompt.comments = requests[1].system_prompt.comments

\* C23: when the loop of ask_gemini or gemini_generate_leads ends without a value,
\* last_error is set: every iteration that does not return has recorded a failure, so
\* the call never returns the error Unknown error after multiple attempts.
C23_FallbackErrorUnreachable ==
    /\ (pc = "loop" /\ attempts >= 1) => last_error # NoError
    /\ (pc = "done" /\ result.status = "err") =>
           /\ result.err.msg[1] # "Unknown error after multiple attempts"
           /\ attempts = max_attempts => result.err = last_error

C23_Witness ==
    /\ fn = "leads" /\ pc = "done" /\ attempts = max_attempts
    /\ Len(resp) = 2 /\ ~resp[1].ok /\ ~resp[2].ok
    /\ result.status = "err"
    /\ result.err = last_error
    /\ last_error.kind = "GeminiApiError"

\* C24: with an empty list of lead keywords gemini_generate_leads returns a
\* ConfigError before it opens or reads the store, starts a spinner, calls the
\* provider or exports.
C24_EmptyKeywordsAbortFirst ==
    (fn = "leads" /\ config.LEAD_KEYWORDS = <<>> /\ fault # "config_read") =>
        /\ pc = "done"
        /\ result = Err(ConfigError("No lead keywords found in configuration file"))
        /\ fault = "none"
        /\ reddits = <<>> /\ all_comments = <<>> /\ failed_reads = {}
        /\ requests = <<>> /\ resp = <<>> /\ attempts = 0
        /\ spinners = <<>>
        /\ exports = <<>>

C24_Witness ==
    /\ fn = "leads" /\ config.LEAD_KEYWORDS = <<>>
    /\ pc = "done"
    /\ result.err.kind = "ConfigError"
    /\ result.err.msg[2] = "No lead keywords found in configuration file"
    /\ Len(posts) = 2 /\ comments # <<>>

\* The comments gemini_generate_leads finds for a stored post: get_post_comments with
\* the id get_db_results reports for it.
CommentsFoundFor(row) == GetPostComments(comments, I64ToString(row.id))

HasComment(found, id) == \E j \in 1..Len(found) : found[j].id = id

\* C25: every comment the default fetch of main saved for a stored post is returned by
\* get_post_comments called with the id get_db_results reports for that post, and is
\* returned for no other post.
C25_SavedCommentsFoundByStoredId ==
    \A s \in main.saved_for : \A k \in 1..Len(GetDbResults(posts)) :
        LET row == GetDbResults(posts)[k] IN
        IF row.url = s[2]
        THEN HasComment(CommentsFoundFor(row), s[1])
        ELSE ~HasComment(CommentsFoundFor(row), s[1])

\* C26: when the comment endpoint returns fewer than two listings the --comments
\* action ends without a panic and without a write to the store.
C26_ShortListingHandled ==
    (main.pc = "exited" /\ main.args.comments # "" /\ main.upstream = "short") =>
        /\ main.exit = "ok"
        /\ ~Ran(main, "append_comments")

\* C28: whenever --clear is passed and authentication succeeds, main has called
\* clear_database when it returns, whichever other flags are passed.
C28_ClearAlwaysRuns ==
    (main.pc = "exited" /\ main.exit = "ok" /\ main.token = "ok" /\ main.args.clear) =>
        Ran(main, "clear_database")

\* The calls main may make without a token.
WithoutToken == {"edit_config_file"}

\* C29: main does nothing unless the token exchange returned a non-empty token: when
\* it fails or returns an empty one main opens the settings file and returns Ok(()),
\* with the store as it was and no extraction call made.
C29_NothingWithoutToken ==
    /\ (main.pc # "off" /\ main.token # "ok") =>
        /\ main.pc = "exited"
        /\ main.exit \in {"ok", "panic"}
        /\ (main.exit = "ok") => (main.token \in {"empty", "err"}
                                  /\ main.did = <<"edit_config_file">>)
        /\ (main.exit = "panic") => (main.token = "none" /\ main.did = <<>>)
        /\ lastOp = NoOp
        /\ \E s \in InitStores : posts = s.posts /\ comments = s.comments
        /\ fn = "none"
    /\ \A k \in 1..Len(main.did) :
        (main.did[k] \notin WithoutToken) => (main.token = "ok")

C29_Witness ==
    /\ main.pc = "exited" /\ main.token = "empty" /\ main.exit = "ok"
    /\ main.args.clear /\ main.args.comments # ""
    /\ main.did = <<"edit_config_file">>
    /\ posts # <<>>

\* C27: with every provider call answered, every call of ask_gemini and of
\* gemini_generate_leads ends: the loop makes at most max_attempts attempts, and the
\* call returns with every spinner thread it started ended and joined.
C27_CallsTerminate ==
    /\ [](attempts <= max_attempts /\ Len(spinners) <= max_attempts)
    /\ [](pc = "process" => fn \in {"ask", "leads"})
    /\ [][(pc = "process" /\ pc' # pc) => pc' \in {"loop", "done"}]_vars
    /\ (fn # "none") ~> (pc = "done" /\ Live(spinners) = {})

C27_Witness ==
    /\ fn = "ask" /\ pc = "done" /\ attempts = max_attempts
    /\ Len(spinners) = max_attempts
    /\ \A k \in 1..Len(spinners) : spinners[k].st = "joined" /\ ~spinners[k].running
    /\ result.status = "err"

\* Record k of the batch is in the posts table: a row holds its link, and its values
\* when no earlier record of the batch has the same link.
PostPersisted(tbl, batch, k) ==
    \E j \in 1..Len(tbl) :
        /\ tbl[j].url = batch[k].url
        /\ (\A i \in 1..(k - 1) : batch[i].url # batch[k].url) =>
               /\ tbl[j].title = batch[k].title
               /\ tbl[j].timestamp = batch[k].timestamp
               /\ tbl[j].relevance = batch[k].relevance

\* Record k of the batch is in the comments table: a row holds its id, and its values
\* when no later record of the batch has the same id.
CommentPersisted(tbl, batch, k) ==
    \E j \in 1..Len(tbl) :
        /\ tbl[j].id = batch[k].id
        /\ (\A i \in (k + 1)..Len(batch) : batch[i].id # batch[k].id) =>
               tbl[j] = batch[k]

\* C30: append_results and append_comments are all-or-nothing: a call that returns an
\* error leaves its table as it was, and after a call that returns Ok every record
\* of the batch whose identifier was not stored before is in the table.
C30_AppendAllOrNothing ==
    [][/\ (lastOp'.op = "append_results" /\ lastOp'.rc # "ok") => (posts' = posts)
       /\ (lastOp'.op = "append_comments" /\ lastOp'.rc # "ok") => (comments' = comments)
       /\ (lastOp'.op = "append_results" /\ lastOp'.rc = "ok") =>
              \A k \in 1..Len(lastOp'.pbatch) :
                  (~PostConflict(posts, lastOp'.pbatch[k])) =>
                      PostPersisted(posts', lastOp'.pbatch, k)
       /\ (lastOp'.op = "append_comments" /\ lastOp'.rc = "ok") =>
              \A k \in 1..Len(lastOp'.cbatch) :
                  (~CommentConflict(comments, lastOp'.cbatch[k])) =>
                      CommentPersisted(comments', lastOp'.cbatch, k)]_vars

C30_Witness ==
    /\ lastOp.op = "append_results" /\ lastOp.rc = "io"
    /\ Len(lastOp.pbatch) = 2
    /\ lastOp.pbatch[1].url # lastOp.pbatch[2].url
    /\ posts = <<>>
    /\ comments # <<>>

=============================================================================
